---- MODULE Spec2Model ----
(***************************************************************************)
(* Model of the donation backend of src/api/index.js, and of the routes    *)
(* that differ in its older variant src/unnamed/part_000: an Express app   *)
(* whose route handlers read and write three Firestore collections (users, *)
(* doacoes, solicitacoes).  Every handler is an async function; each       *)
(* `await` (on the store, on bcrypt, on Cloudinary) is one atomic step,    *)
(* and the steps of different in-flight handlers interleave freely.  A     *)
(* step is the awaited operation together with the synchronous code that   *)
(* follows it, up to the call behind the next await or to the response;    *)
(* the arguments of that next call, `new Date()` among them, are evaluated *)
(* in the step that makes the call.                                        *)
(***************************************************************************)
EXTENDS Integers, Sequences, FiniteSets, TLC

VARIABLES
  users,         \* collection 'users':        doc id -> data
  doacoes,       \* collection 'doacoes':      doc id -> data
  solicitacoes,  \* collection 'solicitacoes': doc id -> data
  usedIds,       \* auto-generated doc ids handed out so far, per collection
  now,           \* the clock read by `new Date()`
  uploads,       \* number of buffers uploaded to Cloudinary so far
  reqs,          \* per handler slot: the handler in flight there, if any
  res            \* the response sent last

vars == <<users, doacoes, solicitacoes, usedIds, now, uploads, reqs, res>>

-----------------------------------------------------------------------------
(* Bounds of the model.                                                    *)
MaxProcs == 2      \* handler invocations in flight at once
MaxUsers == 2      \* user documents ever created
MaxDoacoes == 2    \* donation documents ever created
MaxSolic == 2      \* request documents ever created
MaxClock == 1      \* largest clock value
MaxUploads == 1    \* uploads ever performed

Procs == 1..MaxProcs

-----------------------------------------------------------------------------
(* JavaScript values.  Field values are strings; `undefined` and `null`    *)
(* are two reserved strings.                                               *)
Undef == "<undefined>"
Null == "<null>"

\* !x for the values above: undefined, null and '' are falsy.
Falsy(x) == x \in {Undef, Null, ""}

\* obj.f : reading a property an object does not have gives undefined.
Prop(obj, f) == IF f \in DOMAIN obj THEN obj[f] ELSE Undef

\* { ...a, ...b } and Firestore's doc.update(b): b's fields win.
Merge(a, b) == [f \in DOMAIN a \cup DOMAIN b |-> IF f \in DOMAIN b THEN b[f] ELSE a[f]]

\* delete obj.f
Without(obj, f) == [g \in DOMAIN obj \ {f} |-> obj[g]]

\* doc.exists is false: the snapshot of a missing document.
NoDoc == << >>

\* collection.doc(id).get()
GetDoc(coll, id) == IF id \in DOMAIN coll THEN coll[id] ELSE NoDoc

\* The auto-generated ids: random strings, so that the order of two ids says
\* nothing about which of the two documents was created first.
DocId(prefix, n) == prefix \o ToString(n)

\* The position of an id in the store's document-id order.
DocNum(prefix, id) == CHOOSE n \in 1..(MaxUsers + MaxDoacoes + MaxSolic) : DocId(prefix, n) = id

UserIds == {DocId("u", n) : n \in 1..MaxUsers}

DoacaoIds == {DocId("d", n) : n \in 1..MaxDoacoes}

SolicIds == {DocId("s", n) : n \in 1..MaxSolic}

\* collection.add(data): the document under the fresh id the store assigned.
AddDoc(coll, id, data) == [i \in DOMAIN coll \cup {id} |-> IF i = id THEN data ELSE coll[i]]

\* Time passes between any two steps; new Date() reads `now`.
Tick ==
  /\ now < MaxClock
  /\ now' = now + 1
  /\ UNCHANGED <<users, doacoes, solicitacoes, usedIds, uploads, reqs, res>>

\* bcrypt.hash(senha, 10)
Hash(senha) == <<"$2b$10$", senha>>

\* bcrypt.compare(senha, hash)
Compare(senha, hash) == hash = Hash(senha)

\* res.status(s).json(body), kept with the route and the request it answers.
Response(op, req, status, body) == [op |-> op, req |-> req, status |-> status, body |-> body]

Idle == [op |-> "idle", pc |-> "idle"]

\* Slot p takes the next request: the slots are interchangeable, so a new
\* handler runs in the first idle one.
Free(p) == reqs[p] = Idle /\ \A q \in 1..(p - 1) : reqs[q] # Idle

\* A handler sends its response and ends.
Reply(p, r) == reqs' = [reqs EXCEPT ![p] = Idle] /\ res' = r

\* A handler waits for its next step, holding the locals in frame.
Await(p, frame) == reqs' = [reqs EXCEPT ![p] = frame] /\ UNCHANGED res

\* The handler slots in a given step of a given route.
InFlight(op, pc) == {q \in Procs : reqs[q].op = op /\ reqs[q].pc = pc}

\* The handler slots of the given routes, in any step.
Running(ops) == {q \in Procs : reqs[q].op \in ops}

-----------------------------------------------------------------------------
(* POST /signup                                                            *)
SignupFields == {"cargo", "nome", "email", "telefone", "identidade",
                 "endereco", "cidade", "estado", "cep", "senha"}

\* where('email', '==', email).get()
UsersByEmail(email) == {id \in DOMAIN users : Prop(users[id], "email") = email}

\* Validation, the query for an existing email, and the call of bcrypt.hash.
Signup(p, body) ==
  /\ Free(p)
  /\ Cardinality(usedIds.users) + Cardinality(Running({"signup"})) < MaxUsers
  /\ IF \E f \in SignupFields : Falsy(Prop(body, f))
       THEN Reply(p, Response("signup", body, 400, [message |-> "Todos os campos sao obrigatorios"]))
     ELSE IF UsersByEmail(body.email) # {}
       THEN Reply(p, Response("signup", body, 400, [message |-> "Usuario ja existe"]))
     ELSE Await(p, [op |-> "signup", pc |-> "hash", body |-> body])
  /\ UNCHANGED <<users, doacoes, solicitacoes, usedIds, now, uploads>>

\* The user document written by signup: the destructured fields, the hash
\* and the date.
NovoUsuario(body, createdAt) ==
  [cargo |-> Prop(body, "cargo"), nome |-> Prop(body, "nome"), email |-> Prop(body, "email"),
   telefone |-> Prop(body, "telefone"), identidade |-> Prop(body, "identidade"),
   endereco |-> Prop(body, "endereco"), cidade |-> Prop(body, "cidade"),
   estado |-> Prop(body, "estado"), cep |-> Prop(body, "cep"),
   password_hash |-> Hash(Prop(body, "senha")), createdAt |-> createdAt]

\* bcrypt.hash resolves and userRef.add({...}) is called: its argument, with
\* createdAt: new Date(), is built here.
SignupHash(p) ==
  /\ reqs[p].op = "signup" /\ reqs[p].pc = "hash"
  /\ Await(p, [op |-> "signup", pc |-> "add", body |-> reqs[p].body,
               data |-> NovoUsuario(reqs[p].body, now)])
  /\ UNCHANGED <<users, doacoes, solicitacoes, usedIds, now, uploads>>

\* The store performs the add under a fresh id, and the response.
SignupAdd(p) ==
  /\ reqs[p].op = "signup" /\ reqs[p].pc = "add"
  /\ \E id \in UserIds \ usedIds.users :
       /\ users' = AddDoc(users, id, reqs[p].data)
       /\ usedIds' = [usedIds EXCEPT !.users = @ \cup {id}]
  /\ Reply(p, Response("signup", reqs[p].body, 200, [message |-> "Usuario cadastrado com sucesso!"]))
  /\ UNCHANGED <<doacoes, solicitacoes, now, uploads>>

-----------------------------------------------------------------------------
(* POST /login                                                             *)
\* snapshot.docs[0]: the store returns the matches in document-id order.
FirstOf(ids) == CHOOSE i \in ids : \A j \in ids : DocNum("u", i) <= DocNum("u", j)

\* jwt.sign({ id, email }, secret)
Token(id, email) == [id |-> id, email |-> email]

\* Validation, the query by email, and the call of bcrypt.compare on the
\* document read.
LoginQuery(p, body, op) ==
  /\ Free(p)
  /\ LET email == Prop(body, "email")
         senha == Prop(body, "senha")
         found == UsersByEmail(email)
     IN IF Falsy(email) \/ Falsy(senha)
          THEN Reply(p, Response(op, body, 400, [message |-> "Email e senha sao obrigatorios"]))
        ELSE IF found = {}
          THEN Reply(p, Response(op, body, 401, [message |-> "Usuario nao encontrado"]))
        ELSE Await(p, [op |-> op, pc |-> "compare", body |-> body,
                       id |-> FirstOf(found), user |-> users[FirstOf(found)]])
  /\ UNCHANGED <<users, doacoes, solicitacoes, usedIds, now, uploads>>

Login(p, body) == LoginQuery(p, body, "login")

\* The body of a successful login.
LoginBody(id, user) ==
  [message |-> "Login bem-sucedido",
   token |-> Token(id, user.email),
   user |-> [id |-> id, nome |-> user.nome, email |-> user.email, cargo |-> user.cargo]]

\* bcrypt.compare resolves, and the response.
LoginCompare(p) ==
  /\ reqs[p].op = "login" /\ reqs[p].pc = "compare"
  /\ LET r == reqs[p]
     IN IF ~Compare(r.body.senha, r.user.password_hash)
          THEN Reply(p, Response("login", r.body, 401, [message |-> "Senha incorreta"]))
          ELSE Reply(p, Response("login", r.body, 200, LoginBody(r.id, r.user)))
  /\ UNCHANGED <<users, doacoes, solicitacoes, usedIds, now, uploads>>

\* autenticarToken: req.user is the payload of a token issued by login, so
\* req.user.id is the id of a user document.
Callers == DOMAIN users

-----------------------------------------------------------------------------
(* GET /usuarios/:id                                                       *)
GetUsuario(p, userId) ==
  /\ Free(p)
  /\ Callers # {}
  /\ LET doc == GetDoc(users, userId)
     IN IF doc = NoDoc
          THEN Reply(p, Response("getUsuario", [id |-> userId], 404, [message |-> "Usuario nao encontrado"]))
          ELSE Reply(p, Response("getUsuario", [id |-> userId], 200,
                 [id |-> userId, nome |-> doc.nome, email |-> doc.email]))
  /\ UNCHANGED <<users, doacoes, solicitacoes, usedIds, now, uploads>>

-----------------------------------------------------------------------------
(* PUT /usuarios/:id                                                       *)
\* if (dados.cargo) delete dados.cargo
SemCargo(dados) ==
  IF ~Falsy(Prop(dados, "cargo")) THEN Without(dados, "cargo") ELSE dados

\* userRef.update(dados) is called: with no field in dados the call throws
\* ("At least one field must be updated.") and the catch answers 500 at
\* once; otherwise the handler waits for the store.
PerfilUpdate(p, op, userId, body, dados) ==
  IF DOMAIN dados = {}
    THEN Reply(p, Response(op, [id |-> userId, body |-> body], 500,
                           [message |-> "Erro ao atualizar perfil"]))
    ELSE Await(p, [op |-> op, pc |-> "update", id |-> userId, body |-> body, dados |-> dados])

\* userRef.get() and the existence check; then, with a senha in the body,
\* the call of bcrypt.hash, and without one the rest of the handler up to
\* the call of update.
PutUsuario(p, userId, dados) ==
  /\ Free(p)
  /\ Callers # {}
  /\ IF GetDoc(users, userId) = NoDoc
       THEN Reply(p, Response("putUsuario", [id |-> userId, body |-> dados], 404,
                              [message |-> "Usuario nao encontrado"]))
     ELSE IF ~Falsy(Prop(dados, "senha"))
       THEN Await(p, [op |-> "putUsuario", pc |-> "hash", id |-> userId, body |-> dados])
     ELSE PerfilUpdate(p, "putUsuario", userId, dados, SemCargo(dados))
  /\ UNCHANGED <<users, doacoes, solicitacoes, usedIds, now, uploads>>

\* dados.password_hash = hash; delete dados.senha
SemSenha(dados) == Without(Merge(dados, [password_hash |-> Hash(dados.senha)]), "senha")

\* bcrypt.hash resolves; the hash replaces senha, cargo is dropped, and
\* update is called.
PutUsuarioHash(p) ==
  /\ reqs[p].op = "putUsuario" /\ reqs[p].pc = "hash"
  /\ PerfilUpdate(p, "putUsuario", reqs[p].id, reqs[p].body, SemCargo(SemSenha(reqs[p].body)))
  /\ UNCHANGED <<users, doacoes, solicitacoes, usedIds, now, uploads>>

\* The store performs the update, and the response.
PerfilUpdated(p, op) ==
  /\ reqs[p].op = op /\ reqs[p].pc = "update"
  /\ LET r == reqs[p]
     IN /\ users' = [users EXCEPT ![r.id] = Merge(@, r.dados)]
        /\ Reply(p, Response(op, [id |-> r.id, body |-> r.body], 200,
                             [message |-> "Perfil atualizado com sucesso!"]))
  /\ UNCHANGED <<doacoes, solicitacoes, usedIds, now, uploads>>

PutUsuarioUpdate(p) == PerfilUpdated(p, "putUsuario")

-----------------------------------------------------------------------------
(* POST /login and PUT /usuarios/:id of the older variant                  *)
LoginAntigo(p, body) == LoginQuery(p, body, "loginAntigo")

\* bcrypt.compare resolves, and the response: the message and the token.
LoginCompareAntigo(p) ==
  /\ reqs[p].op = "loginAntigo" /\ reqs[p].pc = "compare"
  /\ LET r == reqs[p]
     IN IF ~Compare(r.body.senha, r.user.password_hash)
          THEN Reply(p, Response("loginAntigo", r.body, 401, [message |-> "Senha incorreta"]))
          ELSE Reply(p, Response("loginAntigo", r.body, 200,
                 [message |-> "Login bem-sucedido", token |-> Token(r.id, r.user.email)]))
  /\ UNCHANGED <<users, doacoes, solicitacoes, usedIds, now, uploads>>

\* The same handler without the line that drops cargo.
PutUsuarioAntigo(p, userId, dados) ==
  /\ Free(p)
  /\ Callers # {}
  /\ IF GetDoc(users, userId) = NoDoc
       THEN Reply(p, Response("putUsuarioAntigo", [id |-> userId, body |-> dados], 404,
                              [message |-> "Usuario nao encontrado"]))
     ELSE IF ~Falsy(Prop(dados, "senha"))
       THEN Await(p, [op |-> "putUsuarioAntigo", pc |-> "hash", id |-> userId, body |-> dados])
     ELSE PerfilUpdate(p, "putUsuarioAntigo", userId, dados, dados)
  /\ UNCHANGED <<users, doacoes, solicitacoes, usedIds, now, uploads>>

PutUsuarioHashAntigo(p) ==
  /\ reqs[p].op = "putUsuarioAntigo" /\ reqs[p].pc = "hash"
  /\ PerfilUpdate(p, "putUsuarioAntigo", reqs[p].id, reqs[p].body, SemSenha(reqs[p].body))
  /\ UNCHANGED <<users, doacoes, solicitacoes, usedIds, now, uploads>>

PutUsuarioUpdateAntigo(p) == PerfilUpdated(p, "putUsuarioAntigo")

-----------------------------------------------------------------------------
(* uploadToCloudinary(buffer): resolves with the URL of the stored image   *)
(* or rejects.                                                             *)
SecureUrl(n) == "url" \o ToString(n)

-----------------------------------------------------------------------------
(* POST /doacoes                                                           *)
\* The fields destructured from req.body and validated.
DoacaoFields == {"titulo", "descricao", "categoria", "localizacao", "cidade", "estado"}

\* The donation document written by create, from the destructured fields.
NovaDoacao(u, body, fotoUrl, createdAt) ==
  [usuario_id |-> u, titulo |-> Prop(body, "titulo"), descricao |-> Prop(body, "descricao"),
   categoria |-> Prop(body, "categoria"), localizacao |-> Prop(body, "localizacao"),
   cidade |-> Prop(body, "cidade"), estado |-> Prop(body, "estado"),
   foto |-> fotoUrl, createdAt |-> createdAt]

\* The routes that add a donation, and the handler slots waiting for an upload.
Criacoes == {"postDoacao", "postDoacaoAntiga"}

Uploading == {q \in Procs : reqs[q].pc = "upload"}

\* Validation; then, with a photo, the call of uploadToCloudinary, and
\* without one the call of add({...}), whose argument, with createdAt:
\* new Date(), is built here.  `file` is whether the request carries a photo.
PostDoacao(p, u, body, file) ==
  /\ Free(p)
  /\ LET req == [user |-> u, body |-> body, file |-> file]
     IN IF \E f \in DoacaoFields : Falsy(Prop(body, f))
          THEN Reply(p, Response("postDoacao", req, 400,
                 [message |-> "Todos os campos obrigatorios devem ser preenchidos (titulo, descricao, categoria, localizacao, cidade, estado)"]))
          ELSE /\ Cardinality(usedIds.doacoes) + Cardinality(Running(Criacoes)) < MaxDoacoes
               /\ file => uploads + Cardinality(Uploading) < MaxUploads
               /\ IF file
                    THEN Await(p, [op |-> "postDoacao", pc |-> "upload", req |-> req])
                    ELSE Await(p, [op |-> "postDoacao", pc |-> "add", req |-> req,
                                   data |-> NovaDoacao(u, body, Null, now)])
  /\ UNCHANGED <<users, doacoes, solicitacoes, usedIds, now, uploads>>

\* uploadToCloudinary settles: rejected, the catch answers 500; resolved,
\* add({...}) is called with the URL and the date read now.  `data` is the
\* document the route builds.
CriacaoUpload(p, op, uploadOk, data) ==
  /\ reqs[p].op = op /\ reqs[p].pc = "upload"
  /\ IF ~uploadOk
       THEN /\ Reply(p, Response(op, reqs[p].req, 500, [message |-> "Erro ao cadastrar doacao"]))
            /\ UNCHANGED uploads
       ELSE /\ uploads' = uploads + 1
            /\ Await(p, [op |-> op, pc |-> "add", req |-> reqs[p].req, data |-> data])
  /\ UNCHANGED <<users, doacoes, solicitacoes, usedIds, now>>

PostDoacaoUpload(p, uploadOk) ==
  CriacaoUpload(p, "postDoacao", uploadOk,
                NovaDoacao(reqs[p].req.user, reqs[p].req.body, SecureUrl(uploads + 1), now))

\* The store performs the add under a fresh id, and the response.
CriacaoAdd(p, op) ==
  /\ reqs[p].op = op /\ reqs[p].pc = "add"
  /\ \E id \in DoacaoIds \ usedIds.doacoes :
       /\ doacoes' = AddDoc(doacoes, id, reqs[p].data)
       /\ usedIds' = [usedIds EXCEPT !.doacoes = @ \cup {id}]
  /\ Reply(p, Response(op, reqs[p].req, 200, [message |-> "Doacao cadastrada com sucesso!"]))
  /\ UNCHANGED <<users, solicitacoes, now, uploads>>

PostDoacaoAdd(p) == CriacaoAdd(p, "postDoacao")

\* The store rejects the add: the catch answers 500, after the upload if
\* there was one.
CriacaoAddErro(p, op) ==
  /\ reqs[p].op = op /\ reqs[p].pc = "add"
  /\ Reply(p, Response(op, reqs[p].req, 500, [message |-> "Erro ao cadastrar doacao"]))
  /\ UNCHANGED <<users, doacoes, solicitacoes, usedIds, now, uploads>>

PostDoacaoAddErro(p) == CriacaoAddErro(p, "postDoacao")

-----------------------------------------------------------------------------
(* POST /doacoes of the older variant: four fields, no cidade or estado.   *)
DoacaoFieldsAntigos == {"titulo", "descricao", "categoria", "localizacao"}

NovaDoacaoAntiga(u, body, fotoUrl, createdAt) ==
  [usuario_id |-> u, titulo |-> Prop(body, "titulo"), descricao |-> Prop(body, "descricao"),
   categoria |-> Prop(body, "categoria"), localizacao |-> Prop(body, "localizacao"),
   foto |-> fotoUrl, createdAt |-> createdAt]

PostDoacaoAntiga(p, u, body, file) ==
  /\ Free(p)
  /\ LET req == [user |-> u, body |-> body, file |-> file]
     IN IF \E f \in DoacaoFieldsAntigos : Falsy(Prop(body, f))
          THEN Reply(p, Response("postDoacaoAntiga", req, 400,
                 [message |-> "Todos os campos obrigatorios devem ser preenchidos"]))
          ELSE /\ Cardinality(usedIds.doacoes) + Cardinality(Running(Criacoes)) < MaxDoacoes
               /\ file => uploads + Cardinality(Uploading) < MaxUploads
               /\ IF file
                    THEN Await(p, [op |-> "postDoacaoAntiga", pc |-> "upload", req |-> req])
                    ELSE Await(p, [op |-> "postDoacaoAntiga", pc |-> "add", req |-> req,
                                   data |-> NovaDoacaoAntiga(u, body, Null, now)])
  /\ UNCHANGED <<users, doacoes, solicitacoes, usedIds, now, uploads>>

PostDoacaoUploadAntiga(p, uploadOk) ==
  CriacaoUpload(p, "postDoacaoAntiga", uploadOk,
                NovaDoacaoAntiga(reqs[p].req.user, reqs[p].req.body, SecureUrl(uploads + 1), now))

PostDoacaoAddAntiga(p) == CriacaoAdd(p, "postDoacaoAntiga")

-----------------------------------------------------------------------------
(* DELETE /doacoes/:id                                                     *)
\* The ownership check comparing the donation with itself.
NaoDonoDeSi(doacao, u) == doacao.usuario_id # doacao.usuario_id

\* doacao.usuario_id !== usuario_id
NaoDono(doacao, u) == doacao.usuario_id # u

\* doacaoRef.get(), the existence check and the ownership check.
DeleteDoacao(p, u, doacaoId) ==
  /\ Free(p)
  /\ LET doc == GetDoc(doacoes, doacaoId)
         req == [user |-> u, id |-> doacaoId]
     IN IF doc = NoDoc
          THEN Reply(p, Response("deleteDoacao", req, 404, [message |-> "Doacao nao encontrada"]))
        ELSE IF NaoDono(doc, u)
          THEN Reply(p, Response("deleteDoacao", req, 403,
                 [message |-> "Voce nao tem permissao para excluir esta doacao"]))
        ELSE Await(p, [op |-> "deleteDoacao", pc |-> "delete", user |-> u, id |-> doacaoId])
  /\ UNCHANGED <<users, doacoes, solicitacoes, usedIds, now, uploads>>

\* doacaoRef.delete() (deleting a missing document succeeds) and the response.
DeleteDoacaoDelete(p) ==
  /\ reqs[p].op = "deleteDoacao" /\ reqs[p].pc = "delete"
  /\ LET r == reqs[p]
     IN /\ doacoes' = [i \in DOMAIN doacoes \ {r.id} |-> doacoes[i]]
        /\ Reply(p, Response("deleteDoacao", [user |-> r.user, id |-> r.id], 200,
                             [message |-> "Doacao excluida com sucesso!"]))
  /\ UNCHANGED <<users, solicitacoes, usedIds, now, uploads>>

-----------------------------------------------------------------------------
(* PUT /doacoes/:id                                                        *)
\* (typeof v !== 'undefined' && v !== null) ? v : stored || null
Manter(v, stored) ==
  IF v # Undef /\ v # Null THEN v ELSE IF Falsy(stored) THEN Null ELSE stored

\* The field spread whether it came or not: { f: v || '' }
OuVazio(body, f) == [g \in {f} |-> IF Falsy(Prop(body, f)) THEN "" ELSE body[f]]

\* ...(typeof v !== 'undefined' && { f: v })
SeVeio(body, f) == IF Prop(body, f) # Undef THEN [g \in {f} |-> body[f]] ELSE << >>

\* The update set with the whole of req.body spread into it.
NovosCamposDoBody(doacao, body, fotoUrl, updatedAt) ==
  Merge(body,
        [cidade |-> Manter(Prop(body, "cidade"), Prop(doacao, "cidade")),
         estado |-> Manter(Prop(body, "estado"), Prop(doacao, "estado")),
         foto |-> fotoUrl, updatedAt |-> updatedAt])

\* The argument of doacaoRef.update(): `doacao` is the data read by the
\* handler's get.
NovosCampos(doacao, body, fotoUrl, updatedAt) ==
  Merge(Merge(Merge(Merge(SeVeio(body, "titulo"), SeVeio(body, "descricao")),
                    SeVeio(body, "categoria")), SeVeio(body, "localizacao")),
        [cidade |-> Manter(Prop(body, "cidade"), Prop(doacao, "cidade")),
         estado |-> Manter(Prop(body, "estado"), Prop(doacao, "estado")),
         foto |-> fotoUrl, updatedAt |-> updatedAt])

\* doacaoRef.update(campos) is called: a field holding undefined makes the
\* call throw and the catch answers 500 at once; otherwise the handler
\* waits for the store.
EdicaoUpdate(p, op, req, doacao, campos) ==
  IF \E f \in DOMAIN campos \ {"updatedAt"} : campos[f] = Undef
    THEN Reply(p, Response(op, req, 500, [message |-> "Erro ao atualizar doacao"]))
    ELSE Await(p, [op |-> op, pc |-> "update", user |-> req.user, id |-> req.id, body |-> req.body,
                   file |-> req.file, doacao |-> doacao, campos |-> campos])

\* doacaoRef.get(), the existence check and the ownership check; then, with
\* a photo, the call of uploadToCloudinary, and without one the call of
\* update({...}), whose argument, with updatedAt: new Date(), is built here.
PutDoacao(p, u, doacaoId, body, file) ==
  /\ Free(p)
  /\ file => uploads + Cardinality(Uploading) < MaxUploads
  /\ LET doc == GetDoc(doacoes, doacaoId)
         req == [user |-> u, id |-> doacaoId, body |-> body, file |-> file]
     IN IF doc = NoDoc
          THEN Reply(p, Response("putDoacao", req, 404, [message |-> "Doacao nao encontrada"]))
        ELSE IF NaoDono(doc, u)
          THEN Reply(p, Response("putDoacao", req, 403,
                 [message |-> "Voce nao tem permissao para editar esta doacao"]))
        ELSE IF file
          THEN Await(p, [op |-> "putDoacao", pc |-> "upload", user |-> u, id |-> doacaoId,
                         body |-> body, file |-> file, doacao |-> doc])
        ELSE EdicaoUpdate(p, "putDoacao", req, doc, NovosCampos(doc, body, Prop(doc, "foto"), now))
  /\ UNCHANGED <<users, doacoes, solicitacoes, usedIds, now, uploads>>

\* uploadToCloudinary settles: rejected, the catch answers 500; resolved,
\* update({...}) is called with the URL and the date read now.  `campos` is
\* the update set the route builds.
EdicaoUpload(p, op, uploadOk, campos) ==
  /\ reqs[p].op = op /\ reqs[p].pc = "upload"
  /\ LET r == reqs[p]
         req == [user |-> r.user, id |-> r.id, body |-> r.body, file |-> r.file]
     IN IF ~uploadOk
          THEN /\ Reply(p, Response(op, req, 500, [message |-> "Erro ao atualizar doacao"]))
               /\ UNCHANGED uploads
          ELSE /\ uploads' = uploads + 1
               /\ EdicaoUpdate(p, op, req, r.doacao, campos)
  /\ UNCHANGED <<users, doacoes, solicitacoes, usedIds, now>>

PutDoacaoUpload(p, uploadOk) ==
  EdicaoUpload(p, "putDoacao", uploadOk,
               NovosCampos(reqs[p].doacao, reqs[p].body, SecureUrl(uploads + 1), now))

\* The store performs the update, which rejects when the document is gone,
\* and the response.
EdicaoUpdated(p, op) ==
  /\ reqs[p].op = op /\ reqs[p].pc = "update"
  /\ LET r == reqs[p]
         req == [user |-> r.user, id |-> r.id, body |-> r.body, file |-> r.file]
     IN IF r.id \notin DOMAIN doacoes
          THEN /\ Reply(p, Response(op, req, 500, [message |-> "Erro ao atualizar doacao"]))
               /\ UNCHANGED doacoes
          ELSE /\ doacoes' = [doacoes EXCEPT ![r.id] = Merge(@, r.campos)]
               /\ Reply(p, Response(op, req, 200, [message |-> "Doacao atualizada com sucesso!"]))
  /\ UNCHANGED <<users, solicitacoes, usedIds, now, uploads>>

PutDoacaoUpdate(p) == EdicaoUpdated(p, "putDoacao")

-----------------------------------------------------------------------------
(* PUT /doacoes/:id of the older variant: the four text fields as they     *)
(* come, the photo and the date; never cidade or estado.                   *)
CamposAntigos(body, fotoUrl, updatedAt) ==
  [titulo |-> Prop(body, "titulo"), descricao |-> Prop(body, "descricao"),
   categoria |-> Prop(body, "categoria"), localizacao |-> Prop(body, "localizacao"),
   foto |-> fotoUrl, updatedAt |-> updatedAt]

PutDoacaoAntiga(p, u, doacaoId, body, file) ==
  /\ Free(p)
  /\ file => uploads + Cardinality(Uploading) < MaxUploads
  /\ LET doc == GetDoc(doacoes, doacaoId)
         req == [user |-> u, id |-> doacaoId, body |-> body, file |-> file]
     IN IF doc = NoDoc
          THEN Reply(p, Response("putDoacaoAntiga", req, 404, [message |-> "Doacao nao encontrada"]))
        ELSE IF NaoDono(doc, u)
          THEN Reply(p, Response("putDoacaoAntiga", req, 403,
                 [message |-> "Voce nao tem permissao para editar esta doacao"]))
        ELSE IF file
          THEN Await(p, [op |-> "putDoacaoAntiga", pc |-> "upload", user |-> u, id |-> doacaoId,
                         body |-> body, file |-> file, doacao |-> doc])
        ELSE EdicaoUpdate(p, "putDoacaoAntiga", req, doc, CamposAntigos(body, Prop(doc, "foto"), now))
  /\ UNCHANGED <<users, doacoes, solicitacoes, usedIds, now, uploads>>

PutDoacaoUploadAntiga(p, uploadOk) ==
  EdicaoUpload(p, "putDoacaoAntiga", uploadOk,
               CamposAntigos(reqs[p].body, SecureUrl(uploads + 1), now))

PutDoacaoUpdateAntiga(p) == EdicaoUpdated(p, "putDoacaoAntiga")

-----------------------------------------------------------------------------
(* Query results.                                                          *)
\* `null` where the code would otherwise hold a document's data.
NullData == << >>

\* The test inverted: doc.exists ? null : doc.data()
NullOrData(doc) == IF doc = NoDoc THEN doc ELSE NullData

\* doc.exists ? doc.data() : null
DataOrNull(doc) == IF doc = NoDoc THEN NullData ELSE doc

\* The order of orderBy('createdAt', 'desc'): later dates first, and among
\* equal dates the store falls back on the document id, descending too.
Before(coll, prefix, i, j) ==
  \/ coll[i].createdAt > coll[j].createdAt
  \/ coll[i].createdAt = coll[j].createdAt /\ DocNum(prefix, i) >= DocNum(prefix, j)

RECURSIVE OrderByCreatedAtDesc(_, _, _)
OrderByCreatedAtDesc(coll, prefix, ids) ==
  IF ids = {} THEN << >>
  ELSE LET first == CHOOSE i \in ids : \A j \in ids : Before(coll, prefix, i, j)
       IN <<first>> \o OrderByCreatedAtDesc(coll, prefix, ids \ {first})

\* snapshot.docs: each document as its id and its data at the time of the query.
Docs(coll, order) == [k \in 1..Len(order) |-> [id |-> order[k], data |-> coll[order[k]]]]

-----------------------------------------------------------------------------
(* POST /solicitacoes                                                      *)
\* The validation without its check of motivo.
FaltaDoacaoId(body) == Falsy(Prop(body, "doacao_id"))

\* !doacao_id || !motivo
FaltaCampo(body) == Falsy(Prop(body, "doacao_id")) \/ Falsy(Prop(body, "motivo"))

\* The request document with its status taken from the body.
NovaSolicitacaoDoBody(u, body, createdAt) ==
  [doacao_id |-> body.doacao_id, receptor_id |-> u, motivo |-> body.motivo,
   status |-> Prop(body, "status"), createdAt |-> createdAt]

\* The request document written by submit.
NovaSolicitacao(u, body, createdAt) ==
  [doacao_id |-> body.doacao_id, receptor_id |-> u, motivo |-> body.motivo,
   status |-> "pendente", createdAt |-> createdAt]

\* Validation, doacaoRef.get() and the existence check, and the call of
\* add({...}), whose argument, with createdAt: new Date(), is built here.
PostSolicitacao(p, u, body) ==
  /\ Free(p)
  /\ Cardinality(usedIds.solicitacoes) + Cardinality(Running({"postSolicitacao"})) < MaxSolic
  /\ LET req == [user |-> u, body |-> body]
     IN IF FaltaCampo(body)
          THEN Reply(p, Response("postSolicitacao", req, 400, [message |-> "Doacao e motivo sao obrigatorios"]))
        ELSE IF GetDoc(doacoes, body.doacao_id) = NoDoc
          THEN Reply(p, Response("postSolicitacao", req, 404, [message |-> "Doacao nao encontrada"]))
        ELSE Await(p, [op |-> "postSolicitacao", pc |-> "add", user |-> u, body |-> body,
                       data |-> NovaSolicitacao(u, body, now)])
  /\ UNCHANGED <<users, doacoes, solicitacoes, usedIds, now, uploads>>

\* The store performs the add under a fresh id, and the response.
PostSolicitacaoAdd(p) ==
  /\ reqs[p].op = "postSolicitacao" /\ reqs[p].pc = "add"
  /\ LET r == reqs[p]
     IN /\ \E id \in SolicIds \ usedIds.solicitacoes :
             /\ solicitacoes' = AddDoc(solicitacoes, id, r.data)
             /\ usedIds' = [usedIds EXCEPT !.solicitacoes = @ \cup {id}]
        /\ Reply(p, Response("postSolicitacao", [user |-> r.user, body |-> r.body], 200,
                             [message |-> "Solicitacao enviada com sucesso!"]))
  /\ UNCHANGED <<users, doacoes, now, uploads>>

-----------------------------------------------------------------------------
(* GET /solicitacoes/historico                                             *)
\* The query without its where clause.
SolicitacoesDeTodos(u) == OrderByCreatedAtDesc(solicitacoes, "s", DOMAIN solicitacoes)

\* where('receptor_id', '==', usuario_id).orderBy('createdAt', 'desc').get()
SolicitacoesDe(u) ==
  OrderByCreatedAtDesc(solicitacoes, "s", {i \in DOMAIN solicitacoes : solicitacoes[i].receptor_id = u})

\* The query; with no request to enrich the response follows at once.
Historico(p, u) ==
  /\ Free(p)
  /\ LET docs == Docs(solicitacoes, SolicitacoesDe(u))
     IN IF Len(docs) = 0
          THEN Reply(p, Response("historico", [user |-> u], 200, << >>))
          ELSE Await(p, [op |-> "historico", pc |-> "doacao", user |-> u, docs |-> docs,
                         solicitacoes |-> << >>])
  /\ UNCHANGED <<users, doacoes, solicitacoes, usedIds, now, uploads>>

\* { id: doc.id, ...data, doacao: doacaoDoc.exists ? doacaoDoc.data() : null }
EntradaHistorico(doc, doacaoDoc) ==
  Merge(Merge([id |-> doc.id], doc.data), [doacao |-> DataOrNull(doacaoDoc)])

\* One turn of the loop: the get of the referenced donation and the push;
\* after the last one, the response.
HistoricoDoacao(p) ==
  /\ reqs[p].op = "historico" /\ reqs[p].pc = "doacao"
  /\ LET r == reqs[p]
         doc == r.docs[Len(r.solicitacoes) + 1]
         out == Append(r.solicitacoes, EntradaHistorico(doc, GetDoc(doacoes, doc.data.doacao_id)))
     IN IF Len(out) = Len(r.docs)
          THEN Reply(p, Response("historico", [user |-> r.user], 200, out))
          ELSE Await(p, [r EXCEPT !.solicitacoes = out])
  /\ UNCHANGED <<users, doacoes, solicitacoes, usedIds, now, uploads>>

-----------------------------------------------------------------------------
(* GET /solicitacoes/recebidas                                             *)
\* where('usuario_id', '==', doador_id).get(), mapped to the ids.
DoacoesDe(u) == {d \in DOMAIN doacoes : doacoes[d].usuario_id = u}

\* The query without its where clause.
SolicitacoesParaTodas(doacoesIds) == OrderByCreatedAtDesc(solicitacoes, "s", DOMAIN solicitacoes)

\* where('doacao_id', 'in', doacoesIds).orderBy('createdAt', 'desc').get()
SolicitacoesPara(doacoesIds) ==
  OrderByCreatedAtDesc(solicitacoes, "s",
                       {i \in DOMAIN solicitacoes : solicitacoes[i].doacao_id \in doacoesIds})

\* The most values in the array of an 'in' filter that every store accepts:
\* a store that enforces the limit rejects the query with more, a store
\* that does not answers it.
InLimit == 30

\* Whether the store rejects the 'in' query with these values.
Rejeita(doacoesIds) == IF Cardinality(doacoesIds) > InLimit THEN BOOLEAN ELSE {FALSE}

\* 1. The donor's donations.
Recebidas(p, u) ==
  /\ Free(p)
  /\ IF DoacoesDe(u) = {}
       THEN Reply(p, Response("recebidas", [user |-> u], 200, << >>))
       ELSE Await(p, [op |-> "recebidas", pc |-> "solicitacoes", user |-> u,
                      doacoesIds |-> DoacoesDe(u)])
  /\ UNCHANGED <<users, doacoes, solicitacoes, usedIds, now, uploads>>

\* 2. The requests on those donations; a rejected query goes to the catch.
RecebidasSolicitacoes(p) ==
  /\ reqs[p].op = "recebidas" /\ reqs[p].pc = "solicitacoes"
  /\ LET r == reqs[p]
         docs == Docs(solicitacoes, SolicitacoesPara(r.doacoesIds))
     IN \E rejeitada \in Rejeita(r.doacoesIds) :
          IF rejeitada
            THEN Reply(p, Response("recebidas", [user |-> r.user], 500,
                                   [message |-> "Erro ao buscar solicitacoes recebidas"]))
          ELSE IF Len(docs) = 0
            THEN Reply(p, Response("recebidas", [user |-> r.user], 200, << >>))
            ELSE Await(p, [op |-> "recebidas", pc |-> "doacao", user |-> r.user, docs |-> docs,
                           solicitacoes |-> << >>])
  /\ UNCHANGED <<users, doacoes, solicitacoes, usedIds, now, uploads>>

\* The get of the referenced donation.
RecebidasDoacao(p) ==
  /\ reqs[p].op = "recebidas" /\ reqs[p].pc = "doacao"
  /\ LET r == reqs[p]
         doc == r.docs[Len(r.solicitacoes) + 1]
     IN Await(p, Merge(r, [pc |-> "receptor", doacaoDoc |-> GetDoc(doacoes, doc.data.doacao_id)]))
  /\ UNCHANGED <<users, doacoes, solicitacoes, usedIds, now, uploads>>

\* { id: doc.id, ...data, doacao: ..., receptor: receptorDoc.exists ? receptorDoc.data() : null }
EntradaRecebida(doc, doacaoDoc, receptorDoc) ==
  Merge(Merge([id |-> doc.id], doc.data),
        [doacao |-> DataOrNull(doacaoDoc), receptor |-> DataOrNull(receptorDoc)])

\* The get of the requester and the push; after the last one, the response.
RecebidasReceptor(p) ==
  /\ reqs[p].op = "recebidas" /\ reqs[p].pc = "receptor"
  /\ LET r == reqs[p]
         doc == r.docs[Len(r.solicitacoes) + 1]
         out == Append(r.solicitacoes,
                       EntradaRecebida(doc, r.doacaoDoc, GetDoc(users, doc.data.receptor_id)))
     IN IF Len(out) = Len(r.docs)
          THEN Reply(p, Response("recebidas", [user |-> r.user], 200, out))
          ELSE Await(p, [op |-> "recebidas", pc |-> "doacao", user |-> r.user, docs |-> r.docs,
                         solicitacoes |-> out])
  /\ UNCHANGED <<users, doacoes, solicitacoes, usedIds, now, uploads>>

-----------------------------------------------------------------------------
(* GET /api/doacoes/historico, GET /doacoes and GET /doacoes/filtrar: each *)
(* is one query and its response.                                          *)
\* .map(doc => ({ id: doc.id, ...doc.data() }))
ComId(docs) == [k \in 1..Len(docs) |-> Merge([id |-> docs[k].id], docs[k].data)]

\* where('usuario_id', '==', usuario_id).orderBy('createdAt', 'desc').get()
GetDoacoesHistorico(p, u) ==
  /\ Free(p)
  /\ Reply(p, Response("doacoesHistorico", [user |-> u], 200,
                       ComId(Docs(doacoes, OrderByCreatedAtDesc(doacoes, "d", DoacoesDe(u))))))
  /\ UNCHANGED <<users, doacoes, solicitacoes, usedIds, now, uploads>>

\* The filter that lets every donation through.
DeQualquerUm(doc, u) == TRUE

\* doc.data().usuario_id !== usuario_id
DeOutro(doc, u) == doc.data.usuario_id # u

\* orderBy('createdAt', 'desc').get() and the filter on the owner.
GetDoacoes(p, u) ==
  /\ Free(p)
  /\ LET docs == Docs(doacoes, OrderByCreatedAtDesc(doacoes, "d", DOMAIN doacoes))
     IN Reply(p, Response("doacoes", [user |-> u], 200,
                          ComId(SelectSeq(docs, LAMBDA doc : DeOutro(doc, u)))))
  /\ UNCHANGED <<users, doacoes, solicitacoes, usedIds, now, uploads>>

\* The order of a query with no orderBy: by document id.
RECURSIVE OrderById(_, _)
OrderById(prefix, ids) ==
  IF ids = {} THEN << >>
  ELSE LET first == CHOOSE i \in ids : \A j \in ids : DocNum(prefix, i) <= DocNum(prefix, j)
       IN <<first>> \o OrderById(prefix, ids \ {first})

Filtros == {"categoria", "cidade", "estado"}

\* The where clauses with the one on estado left out.
CorrespondeSemEstado(data, query) ==
  \A f \in Filtros \ {"estado"} : Falsy(Prop(query, f)) \/ Prop(data, f) = query[f]

\* if (categoria) query.where('categoria', '==', categoria), and the same
\* for cidade and estado: the donations the query finds.
Corresponde(data, query) ==
  \A f \in Filtros : Falsy(Prop(query, f)) \/ Prop(data, f) = query[f]

\* The comparison functions handed to sort.
Comparar(ordenar, a, b) ==
  IF ordenar = "recente" THEN b.createdAt - a.createdAt ELSE a.createdAt - b.createdAt

\* Array.prototype.sort is stable: an element goes before the first one
\* that compares greater than it.
RECURSIVE Inserir(_, _, _)
Inserir(lista, x, ordenar) ==
  IF lista = << >> THEN <<x>>
  ELSE IF Comparar(ordenar, Head(lista), x) > 0 THEN <<x>> \o lista
  ELSE <<Head(lista)>> \o Inserir(Tail(lista), x, ordenar)

RECURSIVE Sort(_, _)
Sort(lista, ordenar) ==
  IF lista = << >> THEN << >>
  ELSE Inserir(Sort(SubSeq(lista, 1, Len(lista) - 1), ordenar), lista[Len(lista)], ordenar)

\* The query, the filter on the owner and the sort asked for.
GetDoacoesFiltrar(p, u, query) ==
  /\ Free(p)
  /\ LET found == {d \in DOMAIN doacoes : Corresponde(doacoes[d], query)}
         lista == ComId(SelectSeq(Docs(doacoes, OrderById("d", found)),
                                  LAMBDA doc : DeOutro(doc, u)))
         ordenar == Prop(query, "ordenar")
     IN Reply(p, Response("filtrar", [user |-> u, query |-> query], 200,
                          IF ordenar \in {"recente", "antiga"} THEN Sort(lista, ordenar) ELSE lista))
  /\ UNCHANGED <<users, doacoes, solicitacoes, usedIds, now, uploads>>

-----------------------------------------------------------------------------
(* PUT /solicitacoes/:id/aceitar and PUT /solicitacoes/:id/recusar: the    *)
(* two handlers differ in the status they write and in their messages.     *)
\* solicRef.get() and the existence check.
Decidir(p, u, solicId, op) ==
  /\ Free(p)
  /\ LET solicDoc == GetDoc(solicitacoes, solicId)
     IN IF solicDoc = NoDoc
          THEN Reply(p, Response(op, [user |-> u, id |-> solicId], 404,
                                 [message |-> "Solicitacao nao encontrada"]))
          ELSE Await(p, [op |-> op, pc |-> "update", user |-> u, id |-> solicId,
                         solicDoc |-> solicDoc])
  /\ UNCHANGED <<users, doacoes, solicitacoes, usedIds, now, uploads>>

\* The update left out: the document as it was.
SemStatus(data, status) == data

\* The document after update({ status }).
ComStatus(data, status) == Merge(data, [status |-> status])

\* solicRef.update({ status }), which rejects when the document is gone.
DecidirUpdate(p, op, status, erro) ==
  /\ reqs[p].op = op /\ reqs[p].pc = "update"
  /\ LET r == reqs[p]
     IN IF r.id \notin DOMAIN solicitacoes
          THEN /\ Reply(p, Response(op, [user |-> r.user, id |-> r.id], 500, [message |-> erro]))
               /\ UNCHANGED solicitacoes
          ELSE /\ solicitacoes' = [solicitacoes EXCEPT ![r.id] = ComStatus(@, status)]
               /\ Await(p, [r EXCEPT !.pc = "receptor"])
  /\ UNCHANGED <<users, doacoes, usedIds, now, uploads>>

\* userRef.get() for the requester read in the first step, and the response;
\* userDoc.data() of a missing user is undefined and reading its nome throws.
DecidirReceptor(p, op, mensagem, erro) ==
  /\ reqs[p].op = op /\ reqs[p].pc = "receptor"
  /\ LET r == reqs[p]
         receptor == GetDoc(users, r.solicDoc.receptor_id)
     IN IF receptor = NoDoc
          THEN Reply(p, Response(op, [user |-> r.user, id |-> r.id], 500, [message |-> erro]))
          ELSE Reply(p, Response(op, [user |-> r.user, id |-> r.id], 200,
                 [message |-> mensagem,
                  receptor |-> [nome |-> receptor.nome, telefone |-> receptor.telefone,
                                email |-> receptor.email]]))
  /\ UNCHANGED <<users, doacoes, solicitacoes, usedIds, now, uploads>>

\* userRef.get() rejected by the store: the catch answers 500.
DecidirReceptorErro(p, op, erro) ==
  /\ reqs[p].op = op /\ reqs[p].pc = "receptor"
  /\ Reply(p, Response(op, [user |-> reqs[p].user, id |-> reqs[p].id], 500, [message |-> erro]))
  /\ UNCHANGED <<users, doacoes, solicitacoes, usedIds, now, uploads>>

Aceitar(p, u, solicId) == Decidir(p, u, solicId, "aceitar")
AceitarUpdate(p) == DecidirUpdate(p, "aceitar", "aceita", "Erro ao aceitar solicitacao")
AceitarReceptor(p) == DecidirReceptor(p, "aceitar", "Solicitacao aceita!", "Erro ao aceitar solicitacao")

AceitarReceptorErro(p) == DecidirReceptorErro(p, "aceitar", "Erro ao aceitar solicitacao")

Recusar(p, u, solicId) == Decidir(p, u, solicId, "recusar")
RecusarUpdate(p) == DecidirUpdate(p, "recusar", "recusada", "Erro ao recusar solicitacao")
RecusarReceptor(p) == DecidirReceptor(p, "recusar", "Solicitacao recusada!", "Erro ao recusar solicitacao")
RecusarReceptorErro(p) == DecidirReceptorErro(p, "recusar", "Erro ao recusar solicitacao")

-----------------------------------------------------------------------------
NoResponse == Response("none", << >>, 0, << >>)

NoIds == [users |-> {}, doacoes |-> {}, solicitacoes |-> {}]

Init ==
  /\ users = << >>
  /\ doacoes = << >>
  /\ solicitacoes = << >>
  /\ usedIds = NoIds
  /\ now = 0
  /\ uploads = 0
  /\ reqs = [p \in Procs |-> Idle]
  /\ res = NoResponse

-----------------------------------------------------------------------------
(* The profile routes on their own, in both variants.                      *)
Cadastro(cargo, email, senha) ==
  [cargo |-> cargo, nome |-> "n", email |-> email, telefone |-> "t", identidade |-> "i",
   endereco |-> "e", cidade |-> "c", estado |-> "uf", cep |-> "z", senha |-> senha]

\* Two signups with the same email and different passwords, the second with
\* a field the route does not know, and one with no cargo.
SignupBodies ==
  {Cadastro("doador", "ana@x", "s1"),
   Merge(Cadastro("receptor", "ana@x", "s9"), [admin |-> "sim"]),
   Without(Cadastro("doador", "ana@x", "s1"), "cargo")}

LoginBodies == {[email |-> "ana@x", senha |-> "s1"], [email |-> "ana@x", senha |-> "s9"],
                [email |-> "ana@x"]}

PerfilBodies == {[cargo |-> "admin"], [cargo |-> ""], [email |-> "ana@x", senha |-> "s2"]}

NextPerfil ==
  \E p \in Procs :
    \/ \E body \in SignupBodies : Signup(p, body)
    \/ SignupHash(p)
    \/ SignupAdd(p)
    \/ \E body \in LoginBodies : Login(p, body)
    \/ LoginCompare(p)
    \/ \E id \in UserIds : GetUsuario(p, id)
    \/ \E id \in UserIds, dados \in PerfilBodies : PutUsuario(p, id, dados)
    \/ PutUsuarioHash(p)
    \/ PutUsuarioUpdate(p)
    \/ \E body \in LoginBodies : LoginAntigo(p, body)
    \/ LoginCompareAntigo(p)
    \/ \E id \in UserIds, dados \in PerfilBodies : PutUsuarioAntigo(p, id, dados)
    \/ PutUsuarioHashAntigo(p)
    \/ PutUsuarioUpdateAntigo(p)

SpecPerfil == Init /\ [][NextPerfil]_vars

-----------------------------------------------------------------------------
(* The donation routes on their own, once two users have signed up:        *)
(* InitDoacoes is a state after the signups of Ana and Bia.                *)
Ana == NovoUsuario(Cadastro("doador", "ana@x", "s1"), 0)
Bia == NovoUsuario(Cadastro("receptor", "bia@x", "s1"), 0)

InitUsuarios ==
  /\ users = (DocId("u", 1) :> Ana) @@ (DocId("u", 2) :> Bia)
  /\ solicitacoes = << >>
  /\ now = 0
  /\ uploads = 0
  /\ reqs = [p \in Procs |-> Idle]

InitDoacoes ==
  /\ InitUsuarios
  /\ doacoes = << >>
  /\ usedIds = [NoIds EXCEPT !.users = UserIds]
  /\ res = Response("signup", Cadastro("receptor", "bia@x", "s1"), 200,
                    [message |-> "Usuario cadastrado com sucesso!"])

Item == [titulo |-> "t", descricao |-> "d", categoria |-> "c", localizacao |-> "l",
         cidade |-> "Porto", estado |-> "PT"]

DoacaoBodies == {Item, Without(Item, "cidade"), [Item EXCEPT !.estado = ""]}

\* An edit of two fields whose body also names another user as usuario_id.
EdicaoBodies == {[titulo |-> "t2", cidade |-> "Lisboa", usuario_id |-> DocId("u", 2)]}

NextDoacoes ==
  \E p \in Procs :
    \/ \E u \in Callers, body \in DoacaoBodies, file \in BOOLEAN : PostDoacao(p, u, body, file)
    \/ \E uploadOk \in BOOLEAN : PostDoacaoUpload(p, uploadOk)
    \/ PostDoacaoAdd(p)
    \/ \E u \in Callers, id \in DoacaoIds, body \in EdicaoBodies, file \in BOOLEAN :
         PutDoacao(p, u, id, body, file)
    \/ \E uploadOk \in BOOLEAN : PutDoacaoUpload(p, uploadOk)
    \/ PutDoacaoUpdate(p)
    \/ \E u \in Callers, id \in DoacaoIds : DeleteDoacao(p, u, id)
    \/ DeleteDoacaoDelete(p)

SpecDoacoes == InitDoacoes /\ [][NextDoacoes]_vars

\* Create on its own, in both variants of the route, with a store that may
\* reject the add.
NextCriacao ==
  \E p \in Procs :
    \/ \E u \in Callers, body \in DoacaoBodies, file \in BOOLEAN : PostDoacao(p, u, body, file)
    \/ \E uploadOk \in BOOLEAN : PostDoacaoUpload(p, uploadOk)
    \/ PostDoacaoAdd(p)
    \/ PostDoacaoAddErro(p)
    \/ \E u \in Callers, body \in DoacaoBodies, file \in BOOLEAN : PostDoacaoAntiga(p, u, body, file)
    \/ \E uploadOk \in BOOLEAN : PostDoacaoUploadAntiga(p, uploadOk)
    \/ PostDoacaoAddAntiga(p)

SpecCriacao == InitDoacoes /\ [][NextCriacao]_vars

-----------------------------------------------------------------------------
(* The request routes, once Ana has posted a donation: InitSolicitacoes is *)
(* a state after Ana's create of Item.                                     *)
InitSolicitacoes ==
  /\ InitUsuarios
  /\ doacoes = (DocId("d", 1) :> NovaDoacao(DocId("u", 1), Item, Null, 0))
  /\ usedIds = [NoIds EXCEPT !.users = UserIds, !.doacoes = {DocId("d", 1)}]
  /\ res = Response("postDoacao", [user |-> DocId("u", 1), body |-> Item, file |-> FALSE], 200,
                    [message |-> "Doacao cadastrada com sucesso!"])

SolicBodies ==
  {[doacao_id |-> DocId("d", 1), motivo |-> "m"], [doacao_id |-> DocId("d", 2), motivo |-> "m"],
   [doacao_id |-> DocId("d", 1), motivo |-> ""], [motivo |-> "m"]}

\* Submit, accept, decline, and the deletion of the donation.
NextDecisao ==
  \E p \in Procs :
    \/ \E u \in Callers, body \in SolicBodies : PostSolicitacao(p, u, body)
    \/ PostSolicitacaoAdd(p)
    \/ \E u \in Callers, id \in SolicIds : Aceitar(p, u, id)
    \/ AceitarUpdate(p)
    \/ AceitarReceptor(p)
    \/ \E u \in Callers, id \in SolicIds : Recusar(p, u, id)
    \/ RecusarUpdate(p)
    \/ RecusarReceptor(p)
    \/ \E u \in Callers, id \in DoacaoIds : DeleteDoacao(p, u, id)
    \/ DeleteDoacaoDelete(p)

SpecDecisao == InitSolicitacoes /\ [][NextDecisao]_vars

\* Submit, accept, and the two listings of requests, as time passes.
NextListas ==
  \/ Tick
  \/ \E p \in Procs :
       \/ \E u \in Callers, body \in SolicBodies : PostSolicitacao(p, u, body)
       \/ PostSolicitacaoAdd(p)
       \/ \E u \in Callers, id \in SolicIds : Aceitar(p, u, id)
       \/ AceitarUpdate(p)
       \/ AceitarReceptor(p)
       \/ \E u \in Callers : Historico(p, u)
       \/ HistoricoDoacao(p)
       \/ \E u \in Callers : Recebidas(p, u)
       \/ RecebidasSolicitacoes(p)
       \/ RecebidasDoacao(p)
       \/ RecebidasReceptor(p)

SpecListas == InitSolicitacoes /\ [][NextListas]_vars

-----------------------------------------------------------------------------
(* The listings once both users have a donation: InitCatalogo is a state   *)
(* after Ana's and Bia's creates of Item.                                  *)
InitCatalogo ==
  /\ InitUsuarios
  /\ doacoes = (DocId("d", 1) :> NovaDoacao(DocId("u", 1), Item, Null, 0)) @@
               (DocId("d", 2) :> NovaDoacao(DocId("u", 2), Item, Null, 0))
  /\ usedIds = [NoIds EXCEPT !.users = UserIds, !.doacoes = DoacaoIds]
  /\ res = Response("postDoacao", [user |-> DocId("u", 2), body |-> Item, file |-> FALSE], 200,
                    [message |-> "Doacao cadastrada com sucesso!"])

PedidoBodies ==
  {[doacao_id |-> DocId("d", 1), motivo |-> "m"], [doacao_id |-> DocId("d", 2), motivo |-> "m"]}

\* Submit, the two listings of requests and the deletion of a donation, as
\* time passes.
NextRecebidas ==
  \/ Tick
  \/ \E p \in Procs :
       \/ \E u \in Callers, body \in PedidoBodies : PostSolicitacao(p, u, body)
       \/ PostSolicitacaoAdd(p)
       \/ \E u \in Callers : Historico(p, u)
       \/ HistoricoDoacao(p)
       \/ \E u \in Callers : Recebidas(p, u)
       \/ RecebidasSolicitacoes(p)
       \/ RecebidasDoacao(p)
       \/ RecebidasReceptor(p)
       \/ \E u \in Callers, id \in DoacaoIds : DeleteDoacao(p, u, id)
       \/ DeleteDoacaoDelete(p)

SpecRecebidas == InitCatalogo /\ [][NextRecebidas]_vars

-----------------------------------------------------------------------------
(* The donor's listing over several donations: InitJuncao is a state after *)
(* n creates of Item by Ana and one by Bia, for n = 2, for the most ids    *)
(* every store accepts in one 'in' filter and for one more.                *)
Acervo(n) ==
  [d \in {DocId("d", k) : k \in 1..(n + 1)} |->
     NovaDoacao(IF d = DocId("d", n + 1) THEN DocId("u", 2) ELSE DocId("u", 1), Item, Null, 0)]

InitJuncao ==
  /\ InitUsuarios
  /\ \E n \in {2, InLimit, InLimit + 1} :
       /\ doacoes = Acervo(n)
       /\ usedIds = [NoIds EXCEPT !.users = UserIds, !.doacoes = DOMAIN Acervo(n)]
  /\ res = Response("postDoacao", [user |-> DocId("u", 2), body |-> Item, file |-> FALSE], 200,
                    [message |-> "Doacao cadastrada com sucesso!"])

\* Requests on two of Ana's donations and on the first that is not hers when
\* she has two.
JuncaoBodies == {[doacao_id |-> DocId("d", k), motivo |-> "m"] : k \in 1..3}

\* Submit and the donor's listing, as time passes.
NextJuncao ==
  \/ Tick
  \/ \E p \in Procs :
       \/ \E u \in Callers, body \in JuncaoBodies : PostSolicitacao(p, u, body)
       \/ PostSolicitacaoAdd(p)
       \/ \E u \in Callers : Recebidas(p, u)
       \/ RecebidasSolicitacoes(p)
       \/ RecebidasDoacao(p)
       \/ RecebidasReceptor(p)

SpecJuncao == InitJuncao /\ [][NextJuncao]_vars

-----------------------------------------------------------------------------
(* The lifecycle of a request from the empty catalogue: Ana creates a      *)
(* donation, Bia submits requests on it, Ana lists the requests received   *)
(* and accepts, Bia lists her requests.                                    *)
NextCiclo ==
  \E p \in Procs :
    \/ PostDoacao(p, DocId("u", 1), Item, FALSE)
    \/ PostDoacaoAdd(p)
    \/ \E d \in DoacaoIds : PostSolicitacao(p, DocId("u", 2), [doacao_id |-> d, motivo |-> "need it"])
    \/ PostSolicitacaoAdd(p)
    \/ Recebidas(p, DocId("u", 1))
    \/ RecebidasSolicitacoes(p)
    \/ RecebidasDoacao(p)
    \/ RecebidasReceptor(p)
    \/ \E id \in SolicIds : Aceitar(p, DocId("u", 1), id)
    \/ AceitarUpdate(p)
    \/ AceitarReceptor(p)
    \/ Historico(p, DocId("u", 2))
    \/ HistoricoDoacao(p)

SpecCiclo == InitDoacoes /\ [][NextCiclo]_vars

-----------------------------------------------------------------------------
(* Updates of Ana's donation by Ana, from InitSolicitacoes, in both        *)
(* variants of the route: a body that stores an empty cidade, one with     *)
(* neither cidade nor estado, one with a new cidade and a null estado, one *)
(* with a new estado.                                                      *)
AtualizacaoBodies ==
  {[cidade |-> ""], [titulo |-> "t2"], [cidade |-> "Lisboa", estado |-> Null],
   [descricao |-> "d2", estado |-> "LX"]}

\* For the older variant of the route: a body with the four text fields and
\* a cidade.
Reescrita == [titulo |-> "t3", descricao |-> "d3", categoria |-> "c", localizacao |-> "l",
              cidade |-> "Lisboa"]

NextEdicao ==
  \E p \in Procs :
    \/ \E body \in AtualizacaoBodies, file \in BOOLEAN :
         PutDoacao(p, DocId("u", 1), DocId("d", 1), body, file)
    \/ \E uploadOk \in BOOLEAN : PutDoacaoUpload(p, uploadOk)
    \/ PutDoacaoUpdate(p)
    \/ \E body \in {Reescrita, [titulo |-> "t2"]}, file \in BOOLEAN :
         PutDoacaoAntiga(p, DocId("u", 1), DocId("d", 1), body, file)
    \/ \E uploadOk \in BOOLEAN : PutDoacaoUploadAntiga(p, uploadOk)
    \/ PutDoacaoUpdateAntiga(p)

SpecEdicao == InitSolicitacoes /\ [][NextEdicao]_vars

-----------------------------------------------------------------------------
(* The listings of donations, from the empty catalogue, as donations with  *)
(* different categories and places are created at different times.         *)
OutroItem == [Item EXCEPT !.categoria = "c2", !.cidade = "Lisboa", !.estado = "LX"]

MeioItem == [Item EXCEPT !.cidade = "Lisboa"]

Queries ==
  {<< >>, [cidade |-> "Porto"], [cidade |-> "Lisboa", estado |-> "PT"],
   [categoria |-> "c", cidade |-> "", ordenar |-> "recente"],
   [estado |-> "PT", ordenar |-> "antiga"], [ordenar |-> "recente"], [ordenar |-> "antiga"],
   [categoria |-> "c2", ordenar |-> "x"]}

NextAcervo ==
  \/ Tick
  \/ \E p \in Procs :
       \/ \E u \in Callers, body \in {Item, OutroItem, MeioItem} : PostDoacao(p, u, body, FALSE)
       \/ PostDoacaoAdd(p)
       \/ \E u \in Callers : GetDoacoesHistorico(p, u)
       \/ \E u \in Callers : GetDoacoes(p, u)
       \/ \E u \in Callers, query \in Queries : GetDoacoesFiltrar(p, u, query)

SpecAcervo == InitDoacoes /\ [][NextAcervo]_vars

-----------------------------------------------------------------------------
(* Decisions of the owner on requests for her donation, with a store that  *)
(* may reject the read of the requester.                                   *)
NextFalhas ==
  \E p \in Procs :
    \/ PostSolicitacao(p, DocId("u", 2), [doacao_id |-> DocId("d", 1), motivo |-> "m"])
    \/ PostSolicitacaoAdd(p)
    \/ \E id \in SolicIds : Aceitar(p, DocId("u", 1), id)
    \/ AceitarUpdate(p)
    \/ AceitarReceptor(p)
    \/ AceitarReceptorErro(p)
    \/ \E id \in SolicIds : Recusar(p, DocId("u", 1), id)
    \/ RecusarUpdate(p)
    \/ RecusarReceptor(p)
    \/ RecusarReceptorErro(p)

SpecFalhas == InitSolicitacoes /\ [][NextFalhas]_vars

-----------------------------------------------------------------------------
(* Properties.  A step that answers at once leaves reqs as it was and      *)
(* changes res; a step of the handler in slot p changes reqs[p].           *)
Answered(op) == reqs' = reqs /\ res' # res /\ res'.op = op

Started(p, op) == reqs[p] = Idle /\ reqs'[p] # Idle /\ reqs'[p].op = op

Stepped(p, op, pc) == reqs[p].op = op /\ reqs[p].pc = pc /\ reqs'[p] # reqs[p]

Decisoes == {"aceitar", "recusar"}

\* C1: a decide (accept or decline) whose caller does not own the donation
\* the request references is answered 403 and leaves every request as it was.
DecisaoSoDoDono ==
  [][\A p \in Procs, op \in Decisoes :
       LET r == reqs[p]
       IN (/\ Stepped(p, op, "update")
           /\ r.id \in DOMAIN solicitacoes
           /\ solicitacoes[r.id].doacao_id \in DOMAIN doacoes
           /\ doacoes[solicitacoes[r.id].doacao_id].usuario_id # r.user)
          => (solicitacoes' = solicitacoes /\ res'.op = op /\ res'.status = 403)]_vars

\* C2: a decide by the owner of the donation on a request that is already
\* aceita or recusada leaves its status as it is.
StatusTerminal ==
  [][\A p \in Procs, op \in Decisoes :
       LET r == reqs[p]
       IN (/\ Stepped(p, op, "update")
           /\ r.id \in DOMAIN solicitacoes
           /\ solicitacoes[r.id].doacao_id \in DOMAIN doacoes
           /\ doacoes[solicitacoes[r.id].doacao_id].usuario_id = r.user
           /\ solicitacoes[r.id].status # "pendente")
          => solicitacoes'[r.id].status = solicitacoes[r.id].status]_vars

\* C3: an update or delete of a missing donation is answered 404 and one by
\* a caller who is not the owner 403, the handler goes on to its write only
\* for the owner of an existing donation, and an answer of 404 or 403 leaves
\* the donations as they were, with no upload.
Edicoes == {"putDoacao", "deleteDoacao"}

SoDonoAltera ==
  [][/\ \A op \in Edicoes :
          Answered(op) =>
            LET id == res'.req.id
            IN /\ res'.status = (IF id \notin DOMAIN doacoes THEN 404 ELSE 403)
               /\ id \in DOMAIN doacoes => doacoes[id].usuario_id # res'.req.user
               /\ doacoes' = doacoes /\ uploads' = uploads
     /\ \A p \in Procs, op \in Edicoes :
          Started(p, op) =>
            /\ reqs'[p].id \in DOMAIN doacoes
            /\ doacoes[reqs'[p].id].usuario_id = reqs'[p].user
            /\ doacoes' = doacoes /\ uploads' = uploads
     /\ \A d \in DOMAIN doacoes :
          (d \notin DOMAIN doacoes' \/ doacoes'[d] # doacoes[d]) =>
            \E p \in Procs : /\ reqs[p].op \in Edicoes /\ reqs'[p] = Idle
                             /\ reqs[p].id = d /\ reqs[p].user = doacoes[d].usuario_id]_vars

\* C3 witness: an update or delete by someone who is not the owner was just
\* refused, and the donation is still there.
NaoDonoRecusado ==
  /\ res.op \in Edicoes /\ res.status = 403
  /\ res.req.id \in DOMAIN doacoes
  /\ doacoes[res.req.id].usuario_id # res.req.user

\* C4: no response carries a password_hash.
Expoe(obj) == "password_hash" \in DOMAIN obj

SemPasswordHash ==
  /\ (res.op = "login" /\ res.status = 200) => ~Expoe(res.body) /\ ~Expoe(res.body.user)
  /\ (res.op = "getUsuario" /\ res.status = 200) => ~Expoe(res.body)
  /\ (res.op \in Decisoes /\ res.status = 200) => ~Expoe(res.body) /\ ~Expoe(res.body.receptor)
  /\ (res.op \in {"historico", "recebidas"} /\ res.status = 200) =>
       \A k \in 1..Len(res.body) : ~Expoe(res.body[k])
  /\ (res.op = "recebidas" /\ res.status = 200) =>
       \A k \in 1..Len(res.body) : ~Expoe(res.body[k].receptor)

\* C5: no step changes the cargo of a user.
CargoNuncaMuda ==
  [][\A id \in DOMAIN users : users'[id].cargo = users[id].cargo]_vars

\* C6: no two users have the same email.
EmailUnico ==
  \A i, j \in DOMAIN users : i # j => users[i].email # users[j].email

\* C7: a donation is created with the caller of the create as its
\* usuario_id, and no step changes the usuario_id of a donation.
DonoFixo ==
  [][/\ \A d \in DOMAIN doacoes \cap DOMAIN doacoes' :
          doacoes'[d].usuario_id = doacoes[d].usuario_id
     /\ \A d \in DOMAIN doacoes' \ DOMAIN doacoes :
          /\ res'.op = "postDoacao" /\ res'.status = 200
          /\ doacoes'[d].usuario_id = res'.req.user]_vars

\* C7 witness: Ana's donation after an update whose body named Bia as
\* usuario_id.
DoacaoEditada ==
  \E d \in DOMAIN doacoes :
    /\ "updatedAt" \in DOMAIN doacoes[d]
    /\ doacoes[d].titulo = "t2"
    /\ doacoes[d].usuario_id = DocId("u", 1)

\* C8: a request is added only while the donation it references exists.
DoacaoExisteAoSolicitar ==
  [][\A s \in DOMAIN solicitacoes' \ DOMAIN solicitacoes :
       solicitacoes'[s].doacao_id \in DOMAIN doacoes]_vars

\* C9: a submit with an empty doacao_id or motivo is answered 400 and one for
\* a missing donation 404, neither adds a request, the handler goes on to its
\* add only with both fields and an existing donation, and every request
\* added is pendente, with the caller as receptor_id.
SolicitacaoValidada ==
  [][/\ Answered("postSolicitacao") =>
          /\ res'.status = (IF FaltaCampo(res'.req.body) THEN 400 ELSE 404)
          /\ ~FaltaCampo(res'.req.body) => res'.req.body.doacao_id \notin DOMAIN doacoes
          /\ solicitacoes' = solicitacoes
     /\ \A p \in Procs :
          Started(p, "postSolicitacao") =>
            /\ ~Falsy(Prop(reqs'[p].body, "doacao_id"))
            /\ ~Falsy(Prop(reqs'[p].body, "motivo"))
            /\ reqs'[p].body.doacao_id \in DOMAIN doacoes
            /\ solicitacoes' = solicitacoes
     /\ \A s \in DOMAIN solicitacoes' \ DOMAIN solicitacoes :
          /\ res'.op = "postSolicitacao" /\ res'.status = 200
          /\ solicitacoes'[s].status = "pendente"
          /\ solicitacoes'[s].receptor_id = res'.req.user
          /\ solicitacoes'[s].doacao_id = res'.req.body.doacao_id
          /\ solicitacoes'[s].motivo = res'.req.body.motivo]_vars

\* C9 witness: a submit for a missing donation was just answered 404 while
\* an earlier submit has left its request.
SubmitRecusado ==
  /\ res.op = "postSolicitacao" /\ res.status = 404
  /\ \E s \in DOMAIN solicitacoes : solicitacoes[s].status = "pendente"

\* C10: the query of listByRequester finds exactly the requests of the
\* caller, each once and as stored, later createdAt first; the response
\* lists them in that order; so a caller whose only request is pendente gets
\* one entry, pendente.
Pedidos(u) == {s \in DOMAIN solicitacoes : solicitacoes[s].receptor_id = u}

HistoricoExato ==
  [][/\ Answered("historico") => (res'.body = << >> /\ Pedidos(res'.req.user) = {})
     /\ \A p \in Procs :
          Started(p, "historico") =>
            LET docs == reqs'[p].docs
                u == reqs'[p].user
            IN /\ {docs[k].id : k \in 1..Len(docs)} = Pedidos(u)
               /\ Len(docs) = Cardinality(Pedidos(u))
               /\ \A k \in 1..Len(docs) : docs[k].data = solicitacoes[docs[k].id]
               /\ \A k, l \in 1..Len(docs) :
                    k < l => docs[k].data.createdAt >= docs[l].data.createdAt
               /\ (Len(docs) = 1 /\ \A s \in Pedidos(u) : solicitacoes[s].status = "pendente")
                    => docs[1].data.status = "pendente"
     /\ \A p \in Procs :
          (reqs[p].op = "historico" /\ reqs'[p] = Idle) =>
            LET docs == reqs[p].docs
            IN /\ res'.op = "historico" /\ res'.status = 200 /\ res'.req.user = reqs[p].user
               /\ Len(res'.body) = Len(docs)
               /\ \A k \in 1..Len(docs) :
                    /\ res'.body[k].id = docs[k].id
                    /\ \A f \in DOMAIN docs[k].data : res'.body[k][f] = docs[k].data[f]]_vars

\* C10 witness: Bia's listing has just returned two entries, the later
\* request first.
HistoricoOrdenado ==
  /\ res.op = "historico" /\ res.status = 200
  /\ Len(res.body) = 2
  /\ res.body[1].createdAt > res.body[2].createdAt

\* The second query of the listing in slot p finds exactly the requests on
\* the donations of the first query, each once and as stored, later
\* createdAt first, none on a donation of another user and, while the
\* caller's donations are those of the first query, none missing.
JuncaoExata(p) ==
  LET u == reqs[p].user
      ids == reqs[p].doacoesIds
      found == {s \in DOMAIN solicitacoes : solicitacoes[s].doacao_id \in ids}
      owned == {d \in DOMAIN doacoes : doacoes[d].usuario_id = u}
  IN IF found = {}
       THEN /\ reqs'[p] = Idle
            /\ res' = Response("recebidas", [user |-> u], 200, << >>)
       ELSE /\ reqs'[p] # Idle
            /\ LET docs == reqs'[p].docs
               IN /\ {docs[k].id : k \in 1..Len(docs)} = found
                  /\ Len(docs) = Cardinality(found)
                  /\ \A k \in 1..Len(docs) : docs[k].data = solicitacoes[docs[k].id]
                  /\ \A k, l \in 1..Len(docs) :
                       k < l => docs[k].data.createdAt >= docs[l].data.createdAt
                  /\ \A k \in 1..Len(docs) :
                       docs[k].data.doacao_id \in DOMAIN doacoes =>
                         doacoes[docs[k].data.doacao_id].usuario_id = u
                  /\ ids = owned =>
                       \A s \in DOMAIN solicitacoes :
                         solicitacoes[s].doacao_id \in owned =>
                           \E k \in 1..Len(docs) : docs[k].id = s

\* The listing of a donor with at most InLimit donations is exact.
JuncaoExataAteOLimite ==
  [][\A p \in Procs :
       (Stepped(p, "recebidas", "solicitacoes") /\ Cardinality(reqs[p].doacoesIds) <= InLimit)
         => JuncaoExata(p)]_vars

\* A donor with two donations has just been listed the requests on both.
JuncaoDeDuas ==
  /\ res.op = "recebidas" /\ res.status = 200
  /\ Len(res.body) = 2
  /\ res.body[1].doacao_id # res.body[2].doacao_id
  /\ Cardinality({d \in DOMAIN doacoes : doacoes[d].usuario_id = res.req.user}) = 2

\* C11: listReceivedByDonor answers the empty list at once for a caller with
\* no donation; otherwise, for every donor, it queries with exactly the
\* caller's donations and finds exactly the requests on them, each once and
\* as stored, later createdAt first, none on a donation of another user
\* and, while the caller's donations are those of the first step, none
\* missing; the response lists them in that order.
RecebidasExatas ==
  [][/\ Answered("recebidas") =>
          /\ res'.body = << >>
          /\ \A d \in DOMAIN doacoes : doacoes[d].usuario_id # res'.req.user
     /\ \A p \in Procs :
          Started(p, "recebidas") =>
            /\ reqs'[p].doacoesIds =
                 {d \in DOMAIN doacoes : doacoes[d].usuario_id = reqs'[p].user}
            /\ reqs'[p].doacoesIds # {}
     /\ \A p \in Procs :
          Stepped(p, "recebidas", "solicitacoes") => JuncaoExata(p)
     /\ \A p \in Procs :
          (reqs[p].op = "recebidas" /\ reqs[p].pc = "receptor" /\ reqs'[p] = Idle) =>
            LET docs == reqs[p].docs
            IN /\ res'.op = "recebidas" /\ res'.status = 200 /\ res'.req.user = reqs[p].user
               /\ Len(res'.body) = Len(docs)
               /\ \A k \in 1..Len(docs) :
                    /\ res'.body[k].id = docs[k].id
                    /\ \A f \in DOMAIN docs[k].data : res'.body[k][f] = docs[k].data[f]]_vars

\* C12: in the lifecycle, the donor's listing started after the donation
\* was created and made while the one request on it is pendente shows one
\* entry, pendente, with the donation and the requester's user document; an
\* accept answered 200 leaves the request aceita; and a listing the
\* requester starts after that shows it aceita.
CicloCompleto ==
  [][/\ \A p \in Procs :
          (/\ Stepped(p, "recebidas", "solicitacoes")
           /\ Cardinality(DOMAIN solicitacoes) = 1
           /\ \A s \in DOMAIN solicitacoes :
                /\ solicitacoes[s].status = "pendente"
                /\ solicitacoes[s].doacao_id \in reqs[p].doacoesIds)
          => /\ Len(reqs'[p].docs) = 1
             /\ reqs'[p].docs[1].data.status = "pendente"
             /\ reqs'[p].docs[1].data.doacao_id \in reqs[p].doacoesIds
     /\ \A p \in Procs :
          (reqs[p].op = "recebidas" /\ reqs[p].pc = "receptor" /\ reqs'[p] = Idle) =>
            /\ res'.status = 200
            /\ Len(res'.body) = Len(reqs[p].docs)
            /\ \A k \in 1..Len(res'.body) :
                 /\ res'.body[k].id = reqs[p].docs[k].id
                 /\ res'.body[k].status = reqs[p].docs[k].data.status
                 /\ res'.body[k].doacao = doacoes[res'.body[k].doacao_id]
                 /\ res'.body[k].receptor = users[res'.body[k].receptor_id]
                 /\ res'.body[k].receptor_id = DocId("u", 2)
     /\ (res' # res /\ res'.op = "aceitar" /\ res'.req.id \in DOMAIN solicitacoes) =>
          /\ res'.status = 200
          /\ solicitacoes'[res'.req.id].status = "aceita"
          /\ res'.body.receptor.email = users[solicitacoes[res'.req.id].receptor_id].email
     /\ \A s \in DOMAIN solicitacoes :
          solicitacoes[s].status = "aceita" => solicitacoes'[s].status = "aceita"
     /\ \A p \in Procs :
          Started(p, "historico") =>
            \A s \in DOMAIN solicitacoes :
              \E k \in 1..Len(reqs'[p].docs) :
                /\ reqs'[p].docs[k].id = s
                /\ reqs'[p].docs[k].data.status = solicitacoes[s].status
     /\ \A p \in Procs :
          (reqs[p].op = "historico" /\ reqs'[p] = Idle) =>
            /\ res'.op = "historico" /\ res'.status = 200
            /\ Len(res'.body) = Len(reqs[p].docs)
            /\ \A k \in 1..Len(res'.body) :
                 /\ res'.body[k].id = reqs[p].docs[k].id
                 /\ res'.body[k].status = reqs[p].docs[k].data.status]_vars

\* C12 witness: after Ana's accept was answered, Bia's listing has just
\* returned her one request, aceita, with the donation.
CicloVisto ==
  /\ res.op = "historico" /\ res.status = 200
  /\ Len(res.body) = 1
  /\ res.body[1].status = "aceita"
  /\ res.body[1].doacao = doacoes[res.body[1].doacao_id]
  /\ res.body[1].receptor_id = DocId("u", 2)

\* C13: no step of a delete changes a request; every answer of the two
\* listings of requests is a 200; and each entry a listing builds carries
\* the donation as it is when the listing reads it, or null when it is gone
\* by then, and likewise the requester.
ListagemSobrevive ==
  [][/\ (DOMAIN doacoes' # DOMAIN doacoes \/ (res' # res /\ res'.op = "deleteDoacao"))
          => solicitacoes' = solicitacoes
     /\ (res' # res /\ res'.op \in {"historico", "recebidas"}) => res'.status = 200
     /\ \A p \in Procs :
          Stepped(p, "historico", "doacao") =>
            LET n == Len(reqs[p].solicitacoes) + 1
                doc == reqs[p].docs[n]
                out == IF reqs'[p] = Idle THEN res'.body ELSE reqs'[p].solicitacoes
                d == doc.data.doacao_id
            IN /\ Len(out) = n
               /\ out[n].id = doc.id
               /\ out[n].doacao = (IF d \in DOMAIN doacoes THEN doacoes[d] ELSE NullData)
               /\ reqs'[p] = Idle <=> n = Len(reqs[p].docs)
     /\ \A p \in Procs :
          Stepped(p, "recebidas", "doacao") =>
            LET d == reqs[p].docs[Len(reqs[p].solicitacoes) + 1].data.doacao_id
            IN reqs'[p].doacaoDoc = (IF d \in DOMAIN doacoes THEN doacoes[d] ELSE NoDoc)
     /\ \A p \in Procs :
          Stepped(p, "recebidas", "receptor") =>
            LET n == Len(reqs[p].solicitacoes) + 1
                doc == reqs[p].docs[n]
                out == IF reqs'[p] = Idle THEN res'.body ELSE reqs'[p].solicitacoes
                u == doc.data.receptor_id
            IN /\ Len(out) = n
               /\ out[n].id = doc.id
               /\ out[n].doacao = (IF reqs[p].doacaoDoc = NoDoc THEN NullData ELSE reqs[p].doacaoDoc)
               /\ out[n].receptor = (IF u \in DOMAIN users THEN users[u] ELSE NullData)
               /\ reqs'[p] = Idle <=> n = Len(reqs[p].docs)]_vars

\* C13 witness: the requester's listing has just returned two entries, one
\* with null for its deleted donation and one with its donation, and both
\* requests are still stored.
EntradaSemDoacao ==
  /\ res.op = "historico" /\ res.status = 200
  /\ Len(res.body) = 2
  /\ \E k \in 1..2 : res.body[k].doacao = NullData /\ res.body[k].doacao_id \notin DOMAIN doacoes
  /\ \E k \in 1..2 : res.body[k].doacao # NullData
  /\ \A k \in 1..2 : res.body[k].id \in DOMAIN solicitacoes

\* C14: an update by the owner whose read of the donation is still current
\* leaves the stored cidade as it was when the body has none or null, and
\* stores the body's cidade otherwise; the same for estado.
Localidade == {"cidade", "estado"}

CidadeMantida ==
  [][\A p \in Procs :
       (/\ Stepped(p, "putDoacao", "update")
        /\ res'.status = 200
        /\ reqs[p].id \in DOMAIN doacoes
        /\ reqs[p].doacao = doacoes[reqs[p].id])
       => \A f \in Localidade :
            LET v == Prop(reqs[p].body, f)
            IN doacoes'[reqs[p].id][f] =
                 (IF v = Undef \/ v = Null THEN doacoes[reqs[p].id][f] ELSE v)]_vars

\* C15: an update by the owner, in either variant of the route, whose read
\* of the donation is still current stores the body's titulo, descricao,
\* categoria and localizacao where the body has them and leaves each of the
\* others as it was, and it stores the URL of the new photo when there is
\* one and leaves foto as it was otherwise; an update that is answered 500
\* changes nothing, and neither does a step before the write.
Textos == {"titulo", "descricao", "categoria", "localizacao"}

Atualizacoes == {"putDoacao", "putDoacaoAntiga"}

SoCamposPresentes ==
  [][/\ \A p \in Procs, op \in Atualizacoes :
          (/\ Stepped(p, op, "update")
           /\ reqs[p].id \in DOMAIN doacoes
           /\ reqs[p].doacao = doacoes[reqs[p].id])
          => LET r == reqs[p]
             IN IF res'.status = 200
                  THEN /\ \A f \in Textos :
                            doacoes'[r.id][f] =
                              (IF f \in DOMAIN r.body THEN r.body[f] ELSE doacoes[r.id][f])
                       /\ r.file => /\ \E k \in 1..uploads :
                                          doacoes'[r.id].foto = SecureUrl(k)
                                     /\ doacoes'[r.id].foto # doacoes[r.id].foto
                       /\ ~r.file => doacoes'[r.id].foto = doacoes[r.id].foto
                  ELSE doacoes' = doacoes
     /\ \A p \in Procs, op \in Atualizacoes :
          (Started(p, op) \/ Stepped(p, op, "upload")) => doacoes' = doacoes
     /\ \A op \in Atualizacoes : Answered(op) => doacoes' = doacoes]_vars

\* C15 witness: an update with no photo and only a descricao and an estado
\* has just been answered 200 for a donation that already had its photo and
\* its new titulo, and both are still there.
FotoMantida ==
  /\ res.op = "putDoacao" /\ res.status = 200
  /\ ~res.req.file
  /\ res.req.body = [descricao |-> "d2", estado |-> "LX"]
  /\ doacoes[res.req.id].foto = SecureUrl(1)
  /\ doacoes[res.req.id].titulo = "t2"
  /\ doacoes[res.req.id].descricao = "d2"
  /\ doacoes[res.req.id].categoria = "c"

\* C16: a create, in either variant of the route, is answered 400 exactly
\* when one of titulo, descricao, categoria, localizacao, cidade, estado is
\* missing or empty, and then nothing is uploaded; any answer other than 200
\* leaves the donations as they were; and a donation is added only with a
\* 200, with the six fields of the body, none empty, and with the URL of an
\* uploaded photo when there was one.
Obrigatorios == {"titulo", "descricao", "categoria", "localizacao", "cidade", "estado"}

CriacaoTudoOuNada ==
  [][/\ (res' # res /\ res'.op \in Criacoes) =>
          LET body == res'.req.body
              falta == \E f \in Obrigatorios : f \notin DOMAIN body \/ body[f] = ""
          IN /\ res'.status = 400 <=> falta
             /\ res'.status = 400 => uploads' = uploads
             /\ res'.status # 200 => doacoes' = doacoes /\ usedIds' = usedIds
             /\ res'.status = 200 => Cardinality(DOMAIN doacoes' \ DOMAIN doacoes) = 1
     /\ \A d \in DOMAIN doacoes' \ DOMAIN doacoes :
          /\ res'.op \in Criacoes /\ res'.status = 200
          /\ \A f \in Obrigatorios :
               /\ f \in DOMAIN res'.req.body
               /\ res'.req.body[f] # ""
               /\ Prop(doacoes'[d], f) = res'.req.body[f]
          /\ ~res'.req.file => doacoes'[d].foto = Null
          /\ res'.req.file => \E k \in 1..uploads : doacoes'[d].foto = SecureUrl(k)]_vars

\* C17: the answer of filter holds exactly the donations that equal the
\* query in each of categoria, cidade and estado the query supplies and that
\* are not the caller's, each once and as stored; with ordenar=recente it
\* is in descending order of createdAt and with ordenar=antiga in ascending
\* order.
FiltroExato ==
  [][(res' # res /\ res'.op = "filtrar") =>
       LET q == res'.req.query
           u == res'.req.user
           out == res'.body
           pedido == {f \in {"categoria", "cidade", "estado"} : f \in DOMAIN q /\ q[f] # ""}
           esperadas == {d \in DOMAIN doacoes :
                           /\ \A f \in pedido : doacoes[d][f] = q[f]
                           /\ doacoes[d].usuario_id # u}
       IN /\ res'.status = 200
          /\ {out[k].id : k \in 1..Len(out)} = esperadas
          /\ Len(out) = Cardinality(esperadas)
          /\ \A k \in 1..Len(out) :
               \A f \in DOMAIN doacoes[out[k].id] : out[k][f] = doacoes[out[k].id][f]
          /\ ("ordenar" \in DOMAIN q /\ q.ordenar = "recente") =>
               \A k, l \in 1..Len(out) : k < l => out[k].createdAt >= out[l].createdAt
          /\ ("ordenar" \in DOMAIN q /\ q.ordenar = "antiga") =>
               \A k, l \in 1..Len(out) : k < l => out[k].createdAt <= out[l].createdAt]_vars

\* C17 witness: a filter on a categoria, with an empty cidade and
\* ordenar=recente, has just returned the two donations of the other user,
\* the later one first.
FiltroRecente ==
  /\ res.op = "filtrar"
  /\ res.req.query = [categoria |-> "c", cidade |-> "", ordenar |-> "recente"]
  /\ Len(res.body) = 2
  /\ res.body[1].createdAt > res.body[2].createdAt
  /\ res.body[1].cidade # res.body[2].cidade

\* C18: the answer of listOwnedBy holds exactly the donations of the
\* caller and the answer of listAvailableTo exactly those of the others,
\* each once and as stored, later createdAt first.
ListasParticionam ==
  [][(res' # res /\ res'.op \in {"doacoesHistorico", "doacoes"}) =>
       LET u == res'.req.user
           out == res'.body
           esperadas == {d \in DOMAIN doacoes :
                           (doacoes[d].usuario_id = u) <=> (res'.op = "doacoesHistorico")}
       IN /\ res'.status = 200
          /\ {out[k].id : k \in 1..Len(out)} = esperadas
          /\ Len(out) = Cardinality(esperadas)
          /\ \A k \in 1..Len(out) :
               \A f \in DOMAIN doacoes[out[k].id] : out[k][f] = doacoes[out[k].id][f]
          /\ \A k, l \in 1..Len(out) : k < l => out[k].createdAt >= out[l].createdAt]_vars

\* C18 witness: the listing of available donations has just returned the
\* one donation of the other user to a caller who has a donation too.
DisponiveisSemAsMinhas ==
  /\ res.op = "doacoes" /\ res.status = 200
  /\ Len(res.body) = 1
  /\ res.body[1].usuario_id # res.req.user
  /\ \E d \in DOMAIN doacoes : doacoes[d].usuario_id = res.req.user

\* C19: an update whose body has no cidade leaves the stored cidade as it
\* is, when that cidade is not empty, whatever other update runs between
\* the handler's read and its write.
CidadeSoDeQuemEnvia ==
  [][\A p \in Procs :
       (/\ Stepped(p, "putDoacao", "update")
        /\ "cidade" \notin DOMAIN reqs[p].body
        /\ reqs[p].id \in DOMAIN doacoes
        /\ ~Falsy(doacoes[reqs[p].id].cidade))
       => doacoes'[reqs[p].id].cidade = doacoes[reqs[p].id].cidade]_vars

\* C20: a decide that is answered with a failure leaves the status of its
\* request as the handler found it, and one that is answered 200 leaves the
\* status it was asked to set or the one of a later decide.
FalhaNaoAltera ==
  [][/\ \A op \in Decisoes : Answered(op) => (res'.status = 404 /\ solicitacoes' = solicitacoes)
     /\ \A p \in Procs :
          (reqs[p].op \in Decisoes /\ reqs'[p] = Idle /\ res'.status # 200) =>
            (reqs[p].id \in DOMAIN solicitacoes =>
               solicitacoes'[reqs[p].id].status = reqs[p].solicDoc.status)
     /\ \A p \in Procs :
          (reqs[p].op \in Decisoes /\ reqs'[p] = Idle /\ res'.status = 200) =>
            solicitacoes'[reqs[p].id].status \in {"aceita", "recusada"}]_vars

\* C21: every stored request is pendente, aceita or recusada; no step
\* removes a request or changes its doacao_id, receptor_id or motivo; and a
\* step of a decide changes nothing but the status of the request it names:
\* no other request, no user, no donation.
Estados == {"pendente", "aceita", "recusada"}

SoStatusMuda ==
  [][/\ \A s \in DOMAIN solicitacoes : solicitacoes[s].status \in Estados
     /\ \A s \in DOMAIN solicitacoes' : solicitacoes'[s].status \in Estados
     /\ \A s \in DOMAIN solicitacoes :
          /\ s \in DOMAIN solicitacoes'
          /\ DOMAIN solicitacoes'[s] = DOMAIN solicitacoes[s]
          /\ \A f \in DOMAIN solicitacoes[s] \ {"status"} :
               solicitacoes'[s][f] = solicitacoes[s][f]
     /\ \A op \in Decisoes :
          (Answered(op) \/ \E p \in Procs : Started(p, op)) =>
            (solicitacoes' = solicitacoes /\ users' = users /\ doacoes' = doacoes)
     /\ \A p \in Procs :
          (reqs[p].op \in Decisoes /\ reqs'[p] # reqs[p]) =>
            /\ users' = users /\ doacoes' = doacoes
            /\ DOMAIN solicitacoes' = DOMAIN solicitacoes
            /\ \A s \in DOMAIN solicitacoes :
                 s # reqs[p].id => solicitacoes'[s] = solicitacoes[s]
     /\ \A s \in DOMAIN solicitacoes :
          solicitacoes'[s].status # solicitacoes[s].status =>
            \E p \in Procs : /\ reqs[p].op \in Decisoes /\ reqs[p].pc = "update"
                             /\ reqs[p].id = s /\ reqs'[p].pc = "receptor"]_vars

\* C21 witness: an accept of one request has just been answered 200 and
\* left it aceita, while the other request is still as it was submitted.
UmaDecidida ==
  /\ res.op = "aceitar" /\ res.status = 200
  /\ DOMAIN solicitacoes = SolicIds
  /\ solicitacoes[res.req.id].status = "aceita"
  /\ solicitacoes[res.req.id].motivo = "m"
  /\ \E s \in DOMAIN solicitacoes :
       /\ s # res.req.id
       /\ solicitacoes[s] = NovaSolicitacao(DocId("u", 2), [doacao_id |-> DocId("d", 1), motivo |-> "m"], 0)

====
